---- MODULE Spec2Model ----
(***************************************************************************)
(* parselib_rs: the cursor (ParserState), the character parser ParseChar,  *)
(* the repetition ParseCount, the sequence ParseAnd and the builder        *)
(* methods of ParserExtensions.                                            *)
(*                                                                         *)
(* A Rust String is modelled as the sequence of its code points; its byte  *)
(* length and its byte slices are computed from the UTF-8 width of each    *)
(* code point, because the source measures and slices the input in bytes.  *)
(* A panic is the outcome "Panic".  A loop that is still iterating after   *)
(* MaxIters sub-parser calls is the outcome "Running".                     *)
(***************************************************************************)
EXTENDS Integers, Sequences, FiniteSets, TLC

VARIABLES state, call, result

vars == <<state, call, result>>

(* ------------------------------ bounds -------------------------------- *)

\* Longest input text, in characters.
MaxLen == 3

\* Largest starting offset handed to new_offset.
MaxIndex == 1

\* Largest finite min / max of a repetition.
MaxCount == 2

\* Number of sub-parser calls after which a repetition loop is reported as
\* still running.  A loop whose every success consumes a character makes at
\* most MaxLen + 1 calls.
MaxIters == MaxLen + MaxCount + 2

\* 'a', 'b' (one byte each in UTF-8) and U+00E9 (two bytes).
Alphabet == {97, 98, 233}

Strings == UNION {[1..n -> Alphabet] : n \in 0..MaxLen}

(* --------------------------- Option, usize ----------------------------- *)

None == <<>>

Some(x) == <<x>>

\* usize::max_value().  No arithmetic is done on it: it is only compared
\* with Vec lengths, none of which reaches it, so any value above every
\* length of the model compares as 2^64 - 1 does.
UsizeMax == MaxIters + 1

Min2(a, b) == IF a <= b THEN a ELSE b

(* ------------------------------ String --------------------------------- *)

\* char::len_utf8
Utf8Len(c) == IF c < 128 THEN 1 ELSE IF c < 2048 THEN 2 ELSE IF c < 65536 THEN 3 ELSE 4

RECURSIVE ByteLen(_)
\* String::len: the length in bytes.
ByteLen(s) == IF s = <<>> THEN 0 ELSE Utf8Len(Head(s)) + ByteLen(Tail(s))

\* str::is_char_boundary for 0 <= n <= ByteLen(s).
IsCharBoundary(s, n) == \E k \in 0..Len(s) : ByteLen(SubSeq(s, 1, k)) = n

\* &s[n..] for a char boundary n: the text from byte n on.
ByteSliceFrom(s, n) ==
    LET k == CHOOSE k \in 0..Len(s) : ByteLen(SubSeq(s, 1, k)) = n
    IN  SubSeq(s, k + 1, Len(s))

\* s.chars().take(n).last().unwrap() for a non-empty s and n >= 1.
TakeLast(s, n) == s[Min2(n, Len(s))]

(* ---------------------------- ParserState ------------------------------ *)

new_offset(input, index) == [input |-> input, index |-> index]

new(input) == new_offset(input, 0)

\* The offset at which char() stops looking: offset >= self.input.len().
PastEnd(self, offset) == offset >= ByteLen(self.input)

\* Mutant of AdvanceIndex: the index moves by the lookahead only.
AdvanceIndexByOffset(index, offset) == index + offset

\* The index of the cursor char() returns.  The index counts the characters
\* consumed from a text held in memory, so it stays far below usize::MAX and
\* the sum does not overflow.
AdvanceIndex(index, offset) == index + offset + 1

\* The first byte of the remaining input of the cursor char() returns.
SliceStart(offset) == offset + 1

char(self, offset) ==
    IF PastEnd(self, offset)
    THEN [kind |-> "None"]
    ELSE IF ~IsCharBoundary(self.input, SliceStart(offset))
    THEN [kind |-> "Panic"]
    ELSE [kind  |-> "Some",
          state |-> [input |-> ByteSliceFrom(self.input, SliceStart(offset)),
                     index |-> AdvanceIndex(self.index, offset)],
          ch    |-> TakeLast(self.input, offset + 1)]

chars(self, count) ==
    IF ByteLen(self.input) >= count
    THEN [kind |-> "Some", chars |-> SubSeq(self.input, 1, Min2(count, Len(self.input)))]
    ELSE [kind |-> "None"]

(* ------------------------- ParseResult, errors ------------------------- *)

Ok(value, new_state, calls) ==
    [kind |-> "Ok", value |-> value, state |-> new_state, calls |-> calls]

Err(error, calls) == [kind |-> "Err", error |-> error, calls |-> calls]

Panic(calls) == [kind |-> "Panic", calls |-> calls]

Running(calls) == [kind |-> "Running", calls |-> calls]

Unexpected(expected, found) ==
    [type |-> "Unexpected", expected |-> expected, found |-> found]

WrongCount(min, max, found) ==
    [type |-> "WrongCount", min |-> min, max |-> max, found |-> found]

(* ------------------------------ parsers -------------------------------- *)

ParseChar_new(start, end) == [type |-> "Char", start |-> start, end |-> end]

from_range(start, end) == ParseChar_new(Some(start), Some(end))

from_start(start) == ParseChar_new(Some(start), None)

from_end(end) == ParseChar_new(None, Some(end))

from_char(c) == ParseChar_new(Some(c), Some(c))

from_any == ParseChar_new(None, None)

ParseCount_new(min, max, parser) ==
    [type |-> "Count", min |-> min, max |-> max, parser |-> parser]

ParseAnd_new(parser_a, parser_b) ==
    [type |-> "And", parser_a |-> parser_a, parser_b |-> parser_b]

and(self, next) == ParseAnd_new(self, next)

between(self, min, max) == ParseCount_new(min, max, self)

at_least(self, min) == between(self, min, UsizeMax)

no_more_than(self, max) == between(self, 0, max)

optional(self) == no_more_than(self, 1)

one_or_more(self) == at_least(self, 1)

\* One invocation of a sub-parser: which parser, on which cursor.
Invocation(parser, parser_state) == [parser |-> parser, state |-> parser_state]

RECURSIVE Parse(_, _)
RECURSIVE CountLoop(_, _, _, _, _)

\* format!("{}..{}", start or '\0', end or '\0'); '.' is code point 46.
expected_str_from_char_range(start, end) ==
    <<IF start # None THEN start[1] ELSE 0, 46, 46, IF end # None THEN end[1] ELSE 0>>

\* char::to_string
to_string(c) == <<c>>

above_start(self, char_at) == IF self.start = None THEN TRUE ELSE char_at >= self.start[1]

below_end(self, char_at) == IF self.end = None THEN TRUE ELSE char_at <= self.end[1]

ParseChar_parse(self, parser_state) ==
    LET r == char(parser_state, 0)
        expected == Some(expected_str_from_char_range(self.start, self.end))
    IN  IF r.kind = "Panic"
        THEN Panic(<<>>)
        ELSE IF r.kind = "Some"
        THEN IF above_start(self, r.ch) /\ below_end(self, r.ch)
             THEN Ok(r.ch, r.state, <<>>)
             ELSE Err(Unexpected(expected, Some(to_string(r.ch))), <<>>)
        ELSE Err(Unexpected(expected, None), <<>>)

\* Vec::with_capacity(self.min) panics ("capacity overflow") when min
\* elements take more than isize::MAX bytes; every output type of this
\* library takes at least 4 bytes (char), so usize::MAX elements do.
CapacityOverflow(min) == min = UsizeMax

\* if output.len() >= self.max { break }
EnoughElements(len, max) == len >= max

\* if output.len() < self.min
TooFewElements(len, min) == len < min

\* Mutant of AfterFailedAttempt: the character the attempt failed on is skipped.
AfterFailedAttemptSkips(new_state) ==
    LET r == char(new_state, 0)
    IN  IF r.kind = "Some" THEN r.state ELSE new_state

\* What a failed attempt leaves in new_state: the cursor before it.
AfterFailedAttempt(new_state) == new_state

\* The loop of ParseCount::parse, from the cursor new_state with the
\* elements output already parsed; calls lists the sub-parser invocations
\* made so far.  fuel is the number of sub-parser calls still followed.
CountLoop(self, new_state, output, calls, fuel) ==
    IF EnoughElements(Len(output), self.max)
    THEN [exit |-> "break", output |-> output, new_state |-> new_state, calls |-> calls]
    ELSE IF fuel = 0
    THEN [exit |-> "Running", output |-> output, new_state |-> new_state, calls |-> calls]
    ELSE LET r  == Parse(self.parser, new_state)
             cs == Append(calls, Invocation(self.parser, new_state))
         IN  IF r.kind = "Ok"
             THEN CountLoop(self, r.state, Append(output, r.value), cs, fuel - 1)
             ELSE IF r.kind = "Err"
             THEN [exit |-> "break", output |-> output,
                   new_state |-> AfterFailedAttempt(new_state), calls |-> cs]
             ELSE [exit |-> r.kind, output |-> output, new_state |-> new_state, calls |-> cs]

ParseCount_parse(self, parser_state) ==
    IF CapacityOverflow(self.min)
    THEN Panic(<<>>)
    ELSE LET l == CountLoop(self, parser_state, <<>>, <<>>, MaxIters)
         IN  IF l.exit = "Panic"
             THEN Panic(l.calls)
             ELSE IF l.exit = "Running"
             THEN Running(l.calls)
             ELSE IF TooFewElements(Len(l.output), self.min)
             THEN Err(WrongCount(self.min, self.max, Len(l.output)), l.calls)
             ELSE Ok(l.output, l.new_state, l.calls)

\* Mutant of SecondInput: parser_b is run on the cursor parser_a was given.
SecondInputRewound(parser_state, new_state) == parser_state

\* The cursor parser_b is run on: the one parser_a returned.
SecondInput(parser_state, new_state) == new_state

ParseAnd_parse(self, parser_state) ==
    LET ra == Parse(self.parser_a, parser_state)
        ca == <<Invocation(self.parser_a, parser_state)>>
    IN  IF ra.kind = "Err"
        THEN Err(ra.error, ca)
        ELSE IF ra.kind # "Ok"
        THEN [kind |-> ra.kind, calls |-> ca]
        ELSE LET sb == SecondInput(parser_state, ra.state)
                 rb == Parse(self.parser_b, sb)
                 cb == Append(ca, Invocation(self.parser_b, sb))
             IN  IF rb.kind = "Err"
                 THEN Err(rb.error, cb)
                 ELSE IF rb.kind # "Ok"
                 THEN [kind |-> rb.kind, calls |-> cb]
                 ELSE Ok(<<ra.value, rb.value>>, rb.state, cb)

\* Parser::parse, dispatched on the parser's type.
Parse(self, parser_state) ==
    IF self.type = "Char"
    THEN ParseChar_parse(self, parser_state)
    ELSE IF self.type = "Count"
    THEN ParseCount_parse(self, parser_state)
    ELSE ParseAnd_parse(self, parser_state)

(* -------------------------- the parsers tried -------------------------- *)

\* Bounds of a character parser: absent, 'a' or 'b'.
CharBounds == {None, Some(97), Some(98)}

CharParsers == {ParseChar_new(s, e) : s \in CharBounds, e \in CharBounds}

\* Character parsers used inside composite parsers.
Atoms == {from_char(97), from_char(98), from_any}

Counts == (0..MaxCount) \cup {UsizeMax}

CountsOf(ps) == {between(p, mn, mx) : p \in ps, mn \in Counts, mx \in Counts}

AndsOf(as, bs) == {and(a, b) : a \in as, b \in bs}

\* Repetitions that can succeed without consuming input, and one that cannot.
Flat == {optional(from_char(97)), no_more_than(from_char(97), 2),
         at_least(from_char(97), 0), one_or_more(from_char(97))}

CountParsers == CountsOf(Atoms \cup AndsOf(Atoms, Atoms) \cup Flat)

AndParsers ==
    LET sub == Atoms \cup Flat \cup AndsOf(Atoms, Atoms)
    IN  AndsOf(sub, sub)

(* ------------------------------ actions -------------------------------- *)

\* The caller holds a cursor and has no call in progress.
Idle == [op |-> "new"]

NoResult == [kind |-> "None"]

Init ==
    /\ \E input \in Strings, index \in 0..MaxIndex : state = new_offset(input, index)
    /\ call = Idle
    /\ result = NoResult

\* ParserState::char on the cursor held.
Char ==
    /\ call = Idle
    /\ \E offset \in 0..(MaxLen + 1) :
          /\ call' = [op |-> "char", state |-> state, offset |-> offset]
          /\ result' = char(state, offset)
    /\ state' = state

\* ParserState::chars on the cursor held.
Chars ==
    /\ call = Idle
    /\ \E count \in 0..(2 * MaxLen + 1) :
          /\ call' = [op |-> "chars", state |-> state, count |-> count]
          /\ result' = chars(state, count)
    /\ state' = state

ParseCharCall ==
    /\ call = Idle
    /\ \E p \in CharParsers :
          /\ call' = [op |-> "parse", state |-> state, parser |-> p]
          /\ result' = ParseChar_parse(p, state)
    /\ state' = state

ParseCountCall ==
    /\ call = Idle
    /\ \E p \in CountParsers :
          /\ call' = [op |-> "parse", state |-> state, parser |-> p]
          /\ result' = ParseCount_parse(p, state)
    /\ state' = state

ParseAndCall ==
    /\ call = Idle
    /\ \E p \in AndParsers :
          /\ call' = [op |-> "parse", state |-> state, parser |-> p]
          /\ result' = ParseAnd_parse(p, state)
    /\ state' = state

\* The caller goes on from the cursor a successful call returned.
Proceed ==
    /\ call # Idle
    /\ call.op \in {"char", "parse"}
    /\ result.kind \in {"Some", "Ok"}
    /\ state' = result.state
    /\ call' = Idle
    /\ result' = NoResult

Next == Char \/ Chars \/ ParseCharCall \/ ParseCountCall \/ ParseAndCall \/ Proceed

Spec == Init /\ [][Next]_vars

(* ------------------------- helpers of the claims ----------------------- *)

IsParse(type) == call.op = "parse" /\ call.parser.type = type

RECURSIVE MatchRun(_, _, _)
\* The results of applying parser again and again from parser_state, each
\* time on the cursor the previous success returned, up to the first
\* application that does not succeed; at most n of them.
MatchRun(parser, parser_state, n) ==
    IF n = 0
    THEN <<>>
    ELSE LET r == Parse(parser, parser_state)
         IN  IF r.kind = "Ok" THEN <<r>> \o MatchRun(parser, r.state, n - 1) ELSE <<>>

RECURSIVE Flatten(_, _)
RECURSIVE FlattenAll(_, _)
\* The characters inside the output value of parser, in order.
Flatten(parser, value) ==
    IF parser.type = "Char"
    THEN <<value>>
    ELSE IF parser.type = "And"
    THEN Flatten(parser.parser_a, value[1]) \o Flatten(parser.parser_b, value[2])
    ELSE FlattenAll(parser.parser, value)

FlattenAll(parser, values) ==
    IF Len(values) = 0
    THEN <<>>
    ELSE Flatten(parser, values[1]) \o FlattenAll(parser, SubSeq(values, 2, Len(values)))

\* The sub-parser invocations of the call that succeeded.
Succeeded(calls) ==
    {i \in 1..Len(calls) : Parse(calls[i].parser, calls[i].state).kind = "Ok"}

Last(S) == CHOOSE i \in S : \A j \in S : j <= i

(* ------------------------------- claims -------------------------------- *)

\* C1: repetition bounds.  For min <= max and an input on which the
\* sub-parser matches exactly k consecutive times from the start cursor,
\* ParseCount::parse succeeds iff k >= min, then with the first min(k, max)
\* sub-parser values and the cursor after them; otherwise it fails with
\* WrongCount{min, max, found: k}.
C1_RepetitionBounds ==
    (IsParse("Count") /\ call.parser.min <= call.parser.max) =>
        LET self == call.parser
            run  == MatchRun(self.parser, call.state, MaxIters)
            k    == Len(run)
            m    == Min2(k, self.max)
        IN  k < MaxIters =>
                IF k >= self.min
                THEN /\ result.kind = "Ok"
                     /\ result.value = [i \in 1..m |-> run[i].value]
                     /\ result.state = IF m = 0 THEN call.state ELSE run[m].state
                ELSE /\ result.kind = "Err"
                     /\ result.error = WrongCount(self.min, self.max, k)

\* C2: range match.  ParseChar::parse succeeds iff a next character c exists
\* that is within the bounds present; it then returns c and the cursor one
\* character further; otherwise it fails with Unexpected, whose expected is
\* "{start}..{end}" and whose found is the text of c, or None at the end of
\* the input.
C2_RangeMatch ==
    IsParse("Char") =>
        LET self == call.parser
            s    == call.state
            has  == Len(s.input) >= 1
            c    == s.input[1]
            fits == /\ (self.start = None \/ c >= self.start[1])
                    /\ (self.end = None \/ c <= self.end[1])
        IN  IF has /\ fits
            THEN /\ result.kind = "Ok"
                 /\ result.value = c
                 /\ result.state = [input |-> Tail(s.input), index |-> s.index + 1]
            ELSE /\ result.kind = "Err"
                 /\ result.error.type = "Unexpected"
                 /\ result.error.found = (IF has THEN Some(<<c>>) ELSE None)
                 /\ (self.start # None /\ self.end # None) =>
                        result.error.expected = Some(<<self.start[1], 46, 46, self.end[1]>>)

\* C3: sequencing.  ParseAnd::parse runs A on the cursor given; if A fails
\* it returns A's error and B is not invoked; if A succeeds B is run on
\* exactly the cursor A returned; if B fails the result is B's error; if B
\* succeeds the result is the pair of values with B's cursor.
C3_Sequencing ==
    IsParse("And") =>
        LET self == call.parser
            ra   == Parse(self.parser_a, call.state)
        IN  /\ Len(result.calls) >= 1
            /\ result.calls[1] = Invocation(self.parser_a, call.state)
            /\ ra.kind = "Err" =>
                  /\ result.kind = "Err"
                  /\ result.error = ra.error
                  /\ Len(result.calls) = 1
            /\ ra.kind = "Ok" =>
                  LET rb == Parse(self.parser_b, ra.state)
                  IN  /\ Len(result.calls) = 2
                      /\ result.calls[2] = Invocation(self.parser_b, ra.state)
                      /\ rb.kind = "Err" =>
                            (result.kind = "Err" /\ result.error = rb.error)
                      /\ rb.kind = "Ok" =>
                            /\ result.kind = "Ok"
                            /\ result.value = <<ra.value, rb.value>>
                            /\ result.state = rb.state

\* C3 witness: A succeeded and consumed input, then B failed, and the
\* sequence returned an error.
C3_Witness ==
    /\ IsParse("And")
    /\ result.kind = "Err"
    /\ Len(result.calls) = 2
    /\ result.calls[2].state.index > call.state.index

\* C4: cursor lookahead.  char(n) returns None iff fewer than n + 1
\* characters remain; otherwise the character at position n and the cursor
\* with the first n + 1 characters removed and the offset n + 1 larger.
C4_CharLookahead ==
    call.op = "char" =>
        LET s == call.state
            n == call.offset
        IN  /\ (result.kind = "None") <=> (Len(s.input) < n + 1)
            /\ Len(s.input) >= n + 1 =>
                  /\ result.kind = "Some"
                  /\ result.ch = s.input[n + 1]
                  /\ result.state = [input |-> SubSeq(s.input, n + 2, Len(s.input)),
                                     index |-> s.index + n + 1]

\* C5: fixed-width lookahead.  chars(count) returns None iff fewer than
\* count characters remain; otherwise exactly the first count characters;
\* the cursor is unchanged.
C5_CharsLookahead ==
    call.op = "chars" =>
        LET s == call.state
            n == call.count
        IN  /\ (result.kind = "None") <=> (Len(s.input) < n)
            /\ Len(s.input) >= n =>
                  /\ result.kind = "Some"
                  /\ Len(result.chars) = n
                  /\ result.chars = SubSeq(s.input, 1, n)
            /\ state = s

\* C6: termination.  An unbounded repetition (max = usize::MAX) over any
\* sub-parser, also one that can succeed without consuming input, ends, and
\* its loop runs the sub-parser at most once per remaining character, plus
\* the attempt that fails.
C6_UnboundedTerminates ==
    (IsParse("Count") /\ call.parser.max = UsizeMax) =>
        /\ result.kind # "Running"
        /\ Len(result.calls) <= Len(call.state.input) + 1

\* C7: monotonic advancement.  When a parse succeeds, the cursor returned has
\* an index not below the one given, larger by the number of characters
\* matched, and its input is the input given without that many leading
\* characters, which are the characters matched; the index is the same only
\* when no character was matched.
C7_MonotonicAdvance ==
    (call.op = "parse" /\ result.kind = "Ok") =>
        LET s       == call.state
            t       == result.state
            matched == Flatten(call.parser, result.value)
            n       == Len(matched)
        IN  /\ t.index >= s.index
            /\ t.index - s.index = n
            /\ n <= Len(s.input)
            /\ matched = SubSeq(s.input, 1, n)
            /\ t.input = SubSeq(s.input, n + 1, Len(s.input))
            /\ (t.index = s.index) => (n = 0)

\* C7 witness: a successful parse of a composite parser, from a cursor
\* with a non-zero index, that matched two or more characters.
C7_Witness ==
    /\ call.op = "parse"
    /\ call.parser.type # "Char"
    /\ call.state.index > 0
    /\ result.kind = "Ok"
    /\ Len(Flatten(call.parser, result.value)) >= 2

\* C8: all failures are values.  No call to parse, char or chars panics
\* instead of returning.
C8_NoPanic == result.kind # "Panic"

\* C9: repetition discards a failed attempt.  When ParseCount::parse
\* succeeds, its cursor is the one the last successful sub-parser call
\* returned (the cursor given when none succeeded), whatever the failing
\* call matched before it failed; and the only error it returns is
\* WrongCount with its own bounds and the number of successes.
C9_DiscardsFailedAttempt ==
    (IsParse("Count") /\ result.kind \in {"Ok", "Err"}) =>
        LET self == call.parser
            oks  == Succeeded(result.calls)
            lst  == result.calls[Last(oks)]
        IN  /\ result.kind = "Ok" =>
                  result.state = IF oks = {} THEN call.state
                                 ELSE Parse(lst.parser, lst.state).state
            /\ result.kind = "Err" =>
                  result.error = WrongCount(self.min, self.max, Cardinality(oks))

\* C9 witness: a repetition of a sequence succeeded although its last
\* attempt failed after the first half of the sequence had matched.
C9_Witness ==
    /\ IsParse("Count")
    /\ call.parser.parser.type = "And"
    /\ result.kind = "Ok"
    /\ Len(result.value) >= 1
    /\ Len(result.calls) = Len(result.value) + 1
    /\ Parse(call.parser.parser.parser_a, result.calls[Len(result.calls)].state).kind = "Ok"
    /\ result.state = result.calls[Len(result.calls)].state
    /\ Len(result.state.input) >= 1

\* C10: unsatisfiable bounds.  For min > max, ParseCount::parse fails with
\* WrongCount{min, max, found}, found <= max being the number of successful
\* iterations, and runs the sub-parser at most max times; with max = 0 and
\* min = 0 it succeeds with no element and the cursor given.
C10_UnsatisfiableBounds ==
    IsParse("Count") =>
        LET self == call.parser
            oks  == Succeeded(result.calls)
        IN  /\ self.min > self.max =>
                  /\ result.kind = "Err"
                  /\ result.error = WrongCount(self.min, self.max, Cardinality(oks))
                  /\ Cardinality(oks) <= self.max
                  /\ Len(result.calls) <= self.max
            /\ (self.min = 0 /\ self.max = 0) =>
                  /\ result.kind = "Ok"
                  /\ result.value = <<>>
                  /\ result.state = call.state
                  /\ result.calls = <<>>

====
